---- MODULE Spec2Model ----
(***************************************************************************)
(* TabSwitcher: the window registry (userWindows), the refresh pass        *)
(* (GetAltTabWindows), the timer-driven refresh loop and the               *)
(* activateWindow handler of main.go, plus the earlier revision of the     *)
(* pass that keeps the ordered list windowsOrder.                          *)
(*                                                                         *)
(* Spec      : the current revision.  The refresh loop goroutine and the   *)
(*             activateWindow handler (run by the event framework on a     *)
(*             goroutine of its own) both execute GetAltTabWindows on the  *)
(*             shared sync.Map; every sync.Map call and every OS query is  *)
(*             one atomic step, nothing else is.                           *)
(* SpecOrder : the revision with windowsOrder; a single goroutine, one     *)
(*             action per phase of the pass.                               *)
(* SpecFront : the front-end (App.tsx): the userWindowsChanged handler,    *)
(*             the tab key handler and clicks, over every payload.         *)
(* SpecClassify : win32.IsAltTabWindow over every answer of its queries.   *)
(* SpecIcon  : win32.GetWindowIcon over every answer of its queries.       *)
(* SpecResolve : the loop body of the pass that looks up the process and   *)
(*             resolves and converts one window's icon.                    *)
(* SpecShutdown : main from the hook installation to the process exit.     *)
(* SpecSwap  : the channel swap of win32.HICONToBase64Png.                 *)
(* SpecLoop  : the refresh loop alone, scheduled fairly.                   *)
(* SpecPopup : win32.GetLastVisibleActivePopUpOfWindow.                    *)
(* SpecActivation : win32.EligibleForActivation.                           *)
(* SpecChan  : win32.ListDesktopWindows and its consumer, scheduled fairly.*)
(***************************************************************************)
EXTENDS Integers, Sequences, FiniteSets, TLC

\* ------------------------------------------------------------------ bounds
NumHandles == 2
MaxPasses == 2
MaxActivations == 1
MaxOsEvents == 1
NumOrderHandles == 3
MaxOrderPasses == 3
MaxOrderOsEvents == 2

\* HWND(0): "no window"
NoWindow == 0

Handles == 1..NumHandles
OrderHandles == 1..NumOrderHandles
Procs == {"loop", "handler"}

VARIABLES
    eligible,       \* OS: handles IsAltTabWindow accepts (their icon queries succeed)
    untitled,       \* OS: handles whose window text is empty
    osForeground,   \* OS: the foreground window, or NoWindow
    osEvents,       \* number of OS changes and OS faults so far
    userWindows,    \* the sync.Map: handle -> UserWindow
    pc,             \* position of each goroutine
    foreground,     \* GetAltTabWindows local: foreground
    rangeLeft,      \* keys a running userWindows.Range has still to visit
    cur,            \* the (key, value, ok) a goroutine holds between a read and its write
    enumq,          \* handles ListDesktopWindows has still to deliver
    enumErr,        \* the enumeration of the current pass reported an error
    classified,     \* handles IsAltTabWindow accepted in each goroutine's current/last pass
    windows,        \* front-end state: windowsState.windows
    selectedWindow, \* front-end state: windowsState.selectedWindow (NoWindow for null / undefined)
    presses,        \* tab presses since the list or the selection was last set otherwise
    startSel,       \* the selection when that run of tab presses began
    cwin,           \* what the OS answers about the window IsAltTabWindow is asked about
    cdone,          \* IsAltTabWindow has returned
    cverdict,       \* what it returned
    iconOs,         \* what the OS answers to each icon query of GetWindowIcon, and the path hint
    iconRet,        \* what GetWindowIcon returned, with the strategies it tried
    slice,          \* GetAltTabWindows local: userWindowsSlice
    published,      \* payload of the latest userWindowsChanged notification
    publisher,      \* goroutine that emitted it, "none" before the first
    passes,         \* passes started by the refresh loop
    activations,    \* activateWindow events delivered
    harg,           \* the handler's hwnd
    hret,           \* how the handler's current/last run went
    hEffects,       \* what the handler's current/last run has done to the registry
    clock,          \* time.Now().UnixMilli()
    upserted,       \* handles each goroutine's current/last pass has stored
    stable,         \* handles eligible ever since start-up
    seen,           \* handles that have appeared in a published snapshot
    windowsOrder,   \* windowsOrder (earlier revision)
    clearsTail,     \* build: slices.Delete zeroes the vacated tail (Go >= 1.22) or not (Go 1.21)
    opc,            \* phase of the earlier revision's pass
    rpc,            \* position in the loop body that resolves one window's path and icon
    rOs,            \* what the OS answers to that loop body's queries
    rIcon,          \* iconInfo, the result of win32.GetWindowIcon in that loop body
    acq,            \* native handles acquired so far, by kind
    rel,            \* native handles released so far, by kind
    rOut,           \* whether the loop body stored the window or left it out
    mainPc,         \* position of main
    msgPc,          \* position of the message-loop goroutine
    msgRet,         \* what the GetMessageW call returned last
    hook,           \* main's hook variable
    hookInstalled,  \* the keyboard hook is installed and UnhookWindowsHookEx was not called on it
    dispatched,     \* messages the message loop has dispatched
    refreshes,      \* iterations of main's refresh goroutine
    pix,            \* the pixel buffer GetDIBits filled
    buf,            \* HICONToBase64Png local: buf
    swaps,          \* times the channel swap loop has run over buf
    callbacks,      \* handles EnumDesktopWindows passes to its callback, in order
    cbDone,         \* callbacks that have returned
    enumFails,      \* EnumDesktopWindows will return an error
    ch,             \* the value a sender is blocked with on the unbuffered channel
    chClosed,       \* the channel is closed
    prodPc,         \* position of the goroutine of ListDesktopWindows
    consPc,         \* position of the range loop that receives
    received,       \* results the range loop has received
    popOs,          \* OS: the popup graph, the visible windows, the window asked about
    popRet,         \* what GetLastVisibleActivePopUpOfWindow returned
    actOs,          \* what the OS answers to the queries of EligibleForActivation
    actRet          \* what EligibleForActivation returned

vars == <<eligible, osForeground, osEvents, userWindows, pc, foreground, rangeLeft, cur,
          enumq, slice, published, publisher, passes, activations, harg, hret, hEffects,
          clock, upserted, stable, seen, windowsOrder, clearsTail, opc, untitled, enumErr,
          classified, windows, selectedWindow, presses, startSel, cwin, cdone, cverdict,
          iconOs, iconRet, rpc, rOs, rIcon, acq, rel, rOut, mainPc, msgPc, msgRet, hook,
          hookInstalled, dispatched, refreshes, pix, buf, swaps, callbacks, cbDone, enumFails, ch, chClosed,
          prodPc, consPc, received, popOs, popRet, actOs, actRet>>

osVars == <<eligible, osForeground, osEvents, stable, untitled>>
handlerVars == <<activations, harg, hret, hEffects, clock>>
orderVars == <<windowsOrder, clearsTail, opc>>
pubVars == <<published, publisher, seen>>
frontVars == <<windows, selectedWindow, presses, startSel>>
win32Vars == <<cwin, cdone, cverdict, iconOs, iconRet>>
resolveVars == <<rpc, rOs, rIcon, acq, rel, rOut>>
shutdownVars == <<mainPc, msgPc, msgRet, hook, hookInstalled, dispatched, refreshes>>
swapVars == <<pix, buf, swaps>>
chanVars == <<callbacks, cbDone, enumFails, ch, chClosed, prodPc, consPc, received>>
popupVars == <<popOs, popRet>>
activationVars == <<actOs, actRet>>
sysVars == <<resolveVars, shutdownVars, swapVars, chanVars, popupVars, activationVars>>

\* ------------------------------------------------------------------ helpers
Range(s) == {s[i] : i \in DOMAIN s}

HwndsOf(s) == {s[i].Hwnd : i \in DOMAIN s}
PosOf(s, h) == CHOOSE i \in DOMAIN s : s[i].Hwnd = h

Perms(S) == {q \in [1..Cardinality(S) -> S] : \A i, j \in 1..Cardinality(S) : i # j => q[i] # q[j]}

\* UserWindow struct (touched, IsForeground, LastActive, Hwnd)
UserWindow(h, t, f, la) == [Hwnd |-> h, touched |-> t, IsForeground |-> f, LastActive |-> la]

\* sync.Map.Store / Delete
MapStore(m, k, v) == [x \in (DOMAIN m) \cup {k} |-> IF x = k THEN v ELSE m[x]]
MapDelete(m, k) == [x \in (DOMAIN m) \ {k} |-> m[x]]

\* win32.IsAltTabWindow against the OS state
IsAltTabWindow(h) == h \in eligible

\* win32.GetWindowTextW: the length copied, and an error whenever that length is 0
GetWindowTextW(h) == [len |-> IF h \in untitled THEN 0 ELSE 1, err |-> (h \in untitled)]

\* the zero value of UserWindow, and "nothing held"
NoVal == UserWindow(NoWindow, FALSE, FALSE, 0)
NoCur == [key |-> NoWindow, ok |-> FALSE, val |-> NoVal]

\* no window is being classified, no icon being resolved
NoWin == [visible |-> FALSE, rootOwner |-> "null", cloakErr |-> FALSE, cloaked |-> 0,
          exStyleFail |-> FALSE, exStyle |-> 0]
NoIconOs == [icon |-> << >>, numIcons |-> 0, exePath |-> ""]
NoIconRet == [done |-> FALSE, Icon |-> 0, Source |-> "", attempts |-> << >>]

Win32Idle ==
    /\ cwin = NoWin
    /\ cdone = FALSE
    /\ cverdict = FALSE
    /\ iconOs = NoIconOs
    /\ iconRet = NoIconRet

\* the kinds of native handle the resolution of one window acquires
Resources == {"mask", "color", "dc", "exeIcon", "process"}

\* no loop body is resolving a window
ResolveIdle ==
    /\ rpc = "off"
    /\ rOs = << >>
    /\ rIcon = NoIconRet
    /\ acq = [r \in Resources |-> 0]
    /\ rel = [r \in Resources |-> 0]
    /\ rOut = "none"

\* main has not started
ShutdownIdle ==
    /\ mainPc = "off"
    /\ msgPc = "off"
    /\ msgRet = 1
    /\ hook = 0
    /\ hookInstalled = FALSE
    /\ dispatched = 0
    /\ refreshes = 0

\* no icon is being converted
SwapIdle ==
    /\ pix = << >>
    /\ buf = << >>
    /\ swaps = 0

\* no enumeration is running
ChanIdle ==
    /\ callbacks = << >>
    /\ cbDone = 0
    /\ enumFails = FALSE
    /\ ch = << >>
    /\ chClosed = FALSE
    /\ prodPc = "off"
    /\ consPc = "off"
    /\ received = << >>

\* no popup chain is being walked, no window is being tested for activation
NoPopRet == [done |-> FALSE, result |-> 0, queries |-> 0]
NoActRet == [done |-> FALSE, result |-> FALSE]

PopupIdle ==
    /\ popOs = << >>
    /\ popRet = NoPopRet

ActivationIdle ==
    /\ actOs = << >>
    /\ actRet = NoActRet

SysIdle ==
    /\ ResolveIdle
    /\ ShutdownIdle
    /\ SwapIdle
    /\ ChanIdle
    /\ PopupIdle
    /\ ActivationIdle

\* ------------------------------------------------------------------ Init
Init ==
    /\ eligible \in SUBSET Handles
    /\ osForeground \in eligible \cup {NoWindow}
    /\ osEvents = 0
    /\ userWindows = << >>
    /\ pc = [p \in Procs |-> IF p = "loop" THEN "tick" ELSE "idle"]
    /\ foreground = [p \in Procs |-> NoWindow]
    /\ rangeLeft = [p \in Procs |-> {}]
    /\ cur = [p \in Procs |-> NoCur]
    /\ enumq = [p \in Procs |-> << >>]
    /\ enumErr = [p \in Procs |-> FALSE]
    /\ classified = [p \in Procs |-> {}]
    /\ windows = << >>
    /\ selectedWindow = NoWindow
    /\ presses = 0
    /\ startSel = NoWindow
    /\ Win32Idle
    /\ SysIdle
    /\ untitled = {}
    /\ slice = [p \in Procs |-> << >>]
    /\ published = << >>
    /\ publisher = "none"
    /\ passes = 0
    /\ activations = 0
    /\ harg = NoWindow
    /\ hret = "none"
    /\ hEffects = {}
    /\ clock = 1
    /\ upserted = [p \in Procs |-> {}]
    /\ stable = eligible
    /\ seen = {}
    /\ windowsOrder = << >>
    /\ clearsTail = FALSE
    /\ opc = "none"

\* ------------------------------------------------------------------ the OS
\* a window becomes a switch target
OsOpen(h, max) ==
    /\ osEvents < max
    /\ h \notin eligible
    /\ eligible' = eligible \cup {h}
    /\ osEvents' = osEvents + 1
    /\ UNCHANGED <<osForeground, stable, untitled>>

\* a window closes (or stops being a switch target)
OsClose(h, max) ==
    /\ osEvents < max
    /\ h \in eligible
    /\ eligible' = eligible \ {h}
    /\ osForeground' = IF osForeground = h THEN NoWindow ELSE osForeground
    /\ stable' = stable \ {h}
    /\ untitled' = untitled \ {h}
    /\ osEvents' = osEvents + 1

\* the user brings another window to the front
OsFocus(h, max) ==
    /\ osEvents < max
    /\ h \in eligible
    /\ h # osForeground
    /\ osForeground' = h
    /\ osEvents' = osEvents + 1
    /\ UNCHANGED <<eligible, stable, untitled>>

\* a window sets its text to the empty string, or to a non-empty one
OsRetitle(h, max) ==
    /\ osEvents < max
    /\ h \in eligible
    /\ untitled' = IF h \in untitled THEN untitled \ {h} ELSE untitled \cup {h}
    /\ stable' = stable \ {h}
    /\ osEvents' = osEvents + 1
    /\ UNCHANGED <<eligible, osForeground>>

OsStep ==
    /\ \E h \in Handles :
          \/ OsOpen(h, MaxOsEvents)
          \/ OsClose(h, MaxOsEvents)
          \/ OsFocus(h, MaxOsEvents)
          \/ OsRetitle(h, MaxOsEvents)
    /\ UNCHANGED <<userWindows, pc, foreground, rangeLeft, cur, enumq, slice, passes, upserted>>
    /\ UNCHANGED <<handlerVars, pubVars, orderVars, enumErr, classified>>
    /\ UNCHANGED <<frontVars, win32Vars, sysVars>>

\* ------------------------------------------------------------------ GetAltTabWindows
\* foreground := GetForegroundWindow(); the reset Range begins
GetForeground(p) ==
    /\ pc[p] = "getForeground"
    /\ foreground' = [foreground EXCEPT ![p] = osForeground]
    /\ rangeLeft' = [rangeLeft EXCEPT ![p] = DOMAIN userWindows]
    /\ upserted' = [upserted EXCEPT ![p] = {}]
    /\ classified' = [classified EXCEPT ![p] = {}]
    /\ slice' = [slice EXCEPT ![p] = << >>]
    /\ pc' = [pc EXCEPT ![p] = "resetRange"]
    /\ hEffects' = IF p = "handler" THEN hEffects \cup {"pass"} ELSE hEffects
    /\ UNCHANGED <<osVars, userWindows, cur, enumq, passes, pubVars, orderVars, enumErr>>
    /\ UNCHANGED <<activations, harg, hret, clock>>
    /\ UNCHANGED <<frontVars, win32Vars, sysVars>>

\* the reset Range hands the callback one (key, val)
ResetVisit(p) ==
    /\ pc[p] = "resetRange"
    /\ \E k \in rangeLeft[p] :
        /\ rangeLeft' = [rangeLeft EXCEPT ![p] = @ \ {k}]
        /\ IF k \in DOMAIN userWindows
           THEN /\ cur' = [cur EXCEPT ![p] = [key |-> k, ok |-> TRUE, val |-> userWindows[k]]]
                /\ pc' = [pc EXCEPT ![p] = "resetStore"]
           ELSE UNCHANGED <<cur, pc>>
    /\ UNCHANGED <<osVars, userWindows, foreground, enumq, slice, passes, upserted>>
    /\ UNCHANGED <<handlerVars, pubVars, orderVars, enumErr, classified>>
    /\ UNCHANGED <<frontVars, win32Vars, sysVars>>

\* window.touched = false; userWindows.Store(key, window)
ResetStore(p) ==
    /\ pc[p] = "resetStore"
    /\ userWindows' = MapStore(userWindows, cur[p].key, [cur[p].val EXCEPT !.touched = FALSE])
    /\ cur' = [cur EXCEPT ![p] = NoCur]
    /\ pc' = [pc EXCEPT ![p] = "resetRange"]
    /\ UNCHANGED <<osVars, foreground, rangeLeft, enumq, slice, passes, upserted>>
    /\ UNCHANGED <<handlerVars, pubVars, orderVars, enumErr, classified>>
    /\ UNCHANGED <<frontVars, win32Vars, sysVars>>

\* win32.ListDesktopWindows(): EnumDesktopWindows hands every window of the desktop to the
\* callback, in the order the OS enumerates them, and returns success
ListDesktopWindows(p) ==
    /\ pc[p] = "resetRange"
    /\ rangeLeft[p] = {}
    /\ \E q \in Perms(eligible) : enumq' = [enumq EXCEPT ![p] = q]
    /\ enumErr' = [enumErr EXCEPT ![p] = FALSE]
    /\ pc' = [pc EXCEPT ![p] = "enum"]
    /\ UNCHANGED <<osVars, userWindows, foreground, rangeLeft, cur, slice, passes, upserted>>
    /\ UNCHANGED <<handlerVars, pubVars, orderVars, classified>>
    /\ UNCHANGED <<frontVars, win32Vars, sysVars>>

\* EnumDesktopWindows returns 0 after n callbacks: the channel carries the n windows, then
\* the Error result (logged and skipped by the consumer), and is closed
ListDesktopWindowsFails(p) ==
    /\ pc[p] = "resetRange"
    /\ rangeLeft[p] = {}
    /\ osEvents < MaxOsEvents
    /\ osEvents' = osEvents + 1
    /\ \E q \in Perms(eligible) : \E n \in 0..Len(q) : enumq' = [enumq EXCEPT ![p] = SubSeq(q, 1, n)]
    /\ enumErr' = [enumErr EXCEPT ![p] = TRUE]
    /\ pc' = [pc EXCEPT ![p] = "enum"]
    /\ UNCHANGED <<eligible, osForeground, stable, untitled>>
    /\ UNCHANGED <<userWindows, foreground, rangeLeft, cur, slice, passes, upserted>>
    /\ UNCHANGED <<handlerVars, pubVars, orderVars, classified>>
    /\ UNCHANGED <<frontVars, win32Vars, sysVars>>

\* one window off the channel: IsAltTabWindow, then the caption query; a window that fails
\* either is skipped
Consume(p) ==
    /\ pc[p] = "enum"
    /\ enumq[p] # << >>
    /\ enumq' = [enumq EXCEPT ![p] = Tail(@)]
    /\ IF IsAltTabWindow(Head(enumq[p]))
       THEN /\ classified' = [classified EXCEPT ![p] = @ \cup {Head(enumq[p])}]
            /\ IF GetWindowTextW(Head(enumq[p])).err
               THEN UNCHANGED <<cur, pc>>
               ELSE /\ cur' = [cur EXCEPT ![p] = [key |-> Head(enumq[p]), ok |-> FALSE, val |-> NoVal]]
                    /\ pc' = [pc EXCEPT ![p] = "load"]
       ELSE UNCHANGED <<cur, pc, classified>>
    /\ UNCHANGED <<osVars, userWindows, foreground, rangeLeft, slice, passes, upserted>>
    /\ UNCHANGED <<handlerVars, pubVars, orderVars, enumErr>>
    /\ UNCHANGED <<frontVars, win32Vars, sysVars>>

\* win, ok := userWindows.Load(hWnd)
Load(p) ==
    /\ pc[p] = "load"
    /\ cur' = [cur EXCEPT ![p] =
                 IF @.key \in DOMAIN userWindows
                 THEN [key |-> @.key, ok |-> TRUE, val |-> userWindows[@.key]]
                 ELSE [key |-> @.key, ok |-> FALSE, val |-> NoVal]]
    /\ pc' = [pc EXCEPT ![p] = "store"]
    /\ UNCHANGED <<osVars, userWindows, foreground, rangeLeft, enumq, slice, passes, upserted>>
    /\ UNCHANGED <<handlerVars, pubVars, orderVars, enumErr, classified>>
    /\ UNCHANGED <<frontVars, win32Vars, sysVars>>

\* the record the upsert stores: the loaded one updated in place, or a new one
Upsert(c, fg) ==
    IF c.ok
    THEN [c.val EXCEPT !.touched = TRUE, !.IsForeground = (fg = c.key)]
    ELSE UserWindow(c.key, TRUE, fg = c.key, 0)

\* userWindows.Store(hWnd, ...)
Store(p) ==
    /\ pc[p] = "store"
    /\ userWindows' = MapStore(userWindows, cur[p].key, Upsert(cur[p], foreground[p]))
    /\ upserted' = [upserted EXCEPT ![p] = @ \cup {cur[p].key}]
    /\ cur' = [cur EXCEPT ![p] = NoCur]
    /\ pc' = [pc EXCEPT ![p] = "enum"]
    /\ UNCHANGED <<osVars, foreground, rangeLeft, enumq, slice, passes>>
    /\ UNCHANGED <<handlerVars, pubVars, orderVars, enumErr, classified>>
    /\ UNCHANGED <<frontVars, win32Vars, sysVars>>

\* the channel is closed; the collecting Range begins
EnumDone(p) ==
    /\ pc[p] = "enum"
    /\ enumq[p] = << >>
    /\ rangeLeft' = [rangeLeft EXCEPT ![p] = DOMAIN userWindows]
    /\ pc' = [pc EXCEPT ![p] = "collect"]
    /\ UNCHANGED <<osVars, userWindows, foreground, cur, enumq, slice, passes, upserted>>
    /\ UNCHANGED <<handlerVars, pubVars, orderVars, enumErr, classified>>
    /\ UNCHANGED <<frontVars, win32Vars, sysVars>>

\* the collecting Range hands the callback one (key, val), in no particular order
CollectVisit(p) ==
    /\ pc[p] = "collect"
    /\ \E k \in rangeLeft[p] :
        /\ rangeLeft' = [rangeLeft EXCEPT ![p] = @ \ {k}]
        /\ IF k \notin DOMAIN userWindows
           THEN UNCHANGED <<cur, pc, slice>>
           ELSE IF userWindows[k].touched
                THEN /\ slice' = [slice EXCEPT ![p] = Append(@, userWindows[k])]
                     /\ UNCHANGED <<cur, pc>>
                ELSE /\ cur' = [cur EXCEPT ![p] = [key |-> k, ok |-> TRUE, val |-> userWindows[k]]]
                     /\ pc' = [pc EXCEPT ![p] = "collectDelete"]
                     /\ UNCHANGED slice
    /\ UNCHANGED <<osVars, userWindows, foreground, enumq, passes, upserted>>
    /\ UNCHANGED <<handlerVars, pubVars, orderVars, enumErr, classified>>
    /\ UNCHANGED <<frontVars, win32Vars, sysVars>>

\* userWindows.Delete(key)
CollectDelete(p) ==
    /\ pc[p] = "collectDelete"
    /\ userWindows' = MapDelete(userWindows, cur[p].key)
    /\ cur' = [cur EXCEPT ![p] = NoCur]
    /\ pc' = [pc EXCEPT ![p] = "collect"]
    /\ UNCHANGED <<osVars, foreground, rangeLeft, enumq, slice, passes, upserted>>
    /\ UNCHANGED <<handlerVars, pubVars, orderVars, enumErr, classified>>
    /\ UNCHANGED <<frontVars, win32Vars, sysVars>>

\* return userWindowsSlice; app.Event.Emit("userWindowsChanged", ...)
Emit(p) ==
    /\ pc[p] = "collect"
    /\ rangeLeft[p] = {}
    /\ published' = slice[p]
    /\ publisher' = p
    /\ seen' = seen \cup {slice[p][i].Hwnd : i \in DOMAIN slice[p]}
    /\ pc' = [pc EXCEPT ![p] = IF p = "loop" THEN "tick" ELSE "idle"]
    /\ hret' = IF p = "handler" THEN "published" ELSE hret
    /\ hEffects' = IF p = "handler" THEN hEffects \cup {"emit"} ELSE hEffects
    /\ UNCHANGED <<osVars, userWindows, foreground, rangeLeft, cur, enumq, slice, passes, upserted>>
    /\ enumErr' = [enumErr EXCEPT ![p] = FALSE]
    /\ UNCHANGED <<activations, harg, clock, orderVars, classified>>
    /\ UNCHANGED <<frontVars, win32Vars, sysVars>>

GetAltTabWindows(p) ==
    \/ GetForeground(p)
    \/ ResetVisit(p)
    \/ ResetStore(p)
    \/ ListDesktopWindows(p)
    \/ ListDesktopWindowsFails(p)
    \/ Consume(p)
    \/ Load(p)
    \/ Store(p)
    \/ EnumDone(p)
    \/ CollectVisit(p)
    \/ CollectDelete(p)
    \/ Emit(p)

\* ------------------------------------------------------------------ the refresh loop
\* <-time.After(time.Second); the next iteration calls GetAltTabWindows
LoopTick ==
    /\ pc["loop"] = "tick"
    /\ passes < MaxPasses
    /\ passes' = passes + 1
    /\ pc' = [pc EXCEPT !["loop"] = "getForeground"]
    /\ UNCHANGED <<osVars, userWindows, foreground, rangeLeft, cur, enumq, slice, upserted>>
    /\ UNCHANGED <<handlerVars, pubVars, orderVars, enumErr, classified>>
    /\ UNCHANGED <<frontVars, win32Vars, sysVars>>

\* ------------------------------------------------------------------ the activateWindow handler
\* the front-end emits activateWindow(hwnd)
HandlerEvent(hwnd) ==
    /\ pc["handler"] = "idle"
    /\ activations < MaxActivations
    /\ activations' = activations + 1
    /\ harg' = hwnd
    /\ hret' = "running"
    /\ hEffects' = {}
    /\ pc' = [pc EXCEPT !["handler"] = "setForeground"]
    /\ UNCHANGED <<osVars, userWindows, foreground, rangeLeft, cur, enumq, slice, passes, upserted>>
    /\ UNCHANGED <<clock, pubVars, orderVars, enumErr, classified>>
    /\ UNCHANGED <<frontVars, win32Vars, sysVars>>

\* success := win32.SetForegroundWindow(hwnd), success = true
SetForegroundOk ==
    /\ pc["handler"] = "setForeground"
    /\ harg \in eligible
    /\ osForeground' = harg
    /\ pc' = [pc EXCEPT !["handler"] = "hLoad"]
    /\ UNCHANGED <<eligible, osEvents, stable, untitled>>
    /\ UNCHANGED <<userWindows, foreground, rangeLeft, cur, enumq, slice, passes, upserted>>
    /\ UNCHANGED <<handlerVars, pubVars, orderVars, enumErr, classified>>
    /\ UNCHANGED <<frontVars, win32Vars, sysVars>>

\* a handler that logs the refusal and carries on
AfterRefusalNoReturn == "hLoad"

\* where the handler goes when SetForegroundWindow reports failure
AfterRefusal == "idle"

\* success = false: log and return
SetForegroundFail ==
    /\ pc["handler"] = "setForeground"
    /\ hret' = "failed"
    /\ pc' = [pc EXCEPT !["handler"] = AfterRefusal]
    /\ UNCHANGED <<osVars, userWindows, foreground, rangeLeft, cur, enumq, slice, passes, upserted>>
    /\ UNCHANGED <<activations, harg, hEffects, clock, pubVars, orderVars, enumErr, classified>>
    /\ UNCHANGED <<frontVars, win32Vars, sysVars>>

\* win, ok := userWindows.Load(hwnd)
HandlerLoad ==
    /\ pc["handler"] = "hLoad"
    /\ IF harg \in DOMAIN userWindows
       THEN /\ cur' = [cur EXCEPT !["handler"] = [key |-> harg, ok |-> TRUE, val |-> userWindows[harg]]]
            /\ pc' = [pc EXCEPT !["handler"] = "hStore"]
            /\ UNCHANGED hret
       ELSE /\ pc' = [pc EXCEPT !["handler"] = "idle"]
            /\ hret' = "absent"
            /\ UNCHANGED cur
    /\ UNCHANGED <<osVars, userWindows, foreground, rangeLeft, enumq, slice, passes, upserted>>
    /\ UNCHANGED <<activations, harg, hEffects, clock, pubVars, orderVars, enumErr, classified>>
    /\ UNCHANGED <<frontVars, win32Vars, sysVars>>

\* window.LastActive = int(time.Now().UnixMilli()); userWindows.Store(hwnd, window)
HandlerStore ==
    /\ pc["handler"] = "hStore"
    /\ userWindows' = MapStore(userWindows, harg, [cur["handler"].val EXCEPT !.LastActive = clock])
    /\ clock' = clock + 1
    /\ hEffects' = hEffects \cup {"store"}
    /\ cur' = [cur EXCEPT !["handler"] = NoCur]
    /\ pc' = [pc EXCEPT !["handler"] = "getForeground"]
    /\ UNCHANGED <<osVars, foreground, rangeLeft, enumq, slice, passes, upserted>>
    /\ UNCHANGED <<activations, harg, hret, pubVars, orderVars, enumErr, classified>>
    /\ UNCHANGED <<frontVars, win32Vars, sysVars>>

ActivateWindow ==
    \/ \E hwnd \in Handles : HandlerEvent(hwnd)
    \/ SetForegroundOk
    \/ SetForegroundFail
    \/ HandlerLoad
    \/ HandlerStore

\* ------------------------------------------------------------------ specification
Next ==
    \/ OsStep
    \/ LoopTick
    \/ \E p \in Procs : GetAltTabWindows(p)
    \/ ActivateWindow

Spec == Init /\ [][Next]_vars

\* ------------------------------------------------------------------ claims on Spec
\* a goroutine is inside GetAltTabWindows
InPass(p) == pc[p] \in {"resetRange", "resetStore", "enum", "load", "store", "collect", "collectDelete"}

\* the step in which p's pass returns
PassReturns(p) == pc[p] = "collect" /\ pc'[p] \in {"tick", "idle"}


\* C1: when a refresh pass returns, the registry holds no handle that this pass did not
\* classify eligible and upsert.
C1_NoStaleAfterPass ==
    [][\A p \in Procs : PassReturns(p) => DOMAIN userWindows' \subseteq upserted'[p]]_vars

\* survivors keep their relative order, handles first seen come after all survivors
OrderKept(old, new) ==
    \A i, j \in DOMAIN new :
        i < j =>
            /\ (new[i].Hwnd \in HwndsOf(old) /\ new[j].Hwnd \in HwndsOf(old))
                  => PosOf(old, new[i].Hwnd) < PosOf(old, new[j].Hwnd)
            /\ ~(new[i].Hwnd \notin HwndsOf(old) /\ new[j].Hwnd \in HwndsOf(old))

\* C3: every published snapshot is in first-seen order: the handles it shares with the
\* previous snapshot keep their relative order, and new handles come after them.
C3_DiscoveryOrder ==
    [][(publisher' # publisher \/ published' # published) => OrderKept(published, published')]_vars

\* C5: every published snapshot has at most one record with IsForeground = true.
C5_OneForeground ==
    Cardinality({i \in DOMAIN published : published[i].IsForeground}) <= 1

\* C6: the refresh loop's pass is never in progress together with the handler's pass or
\* the handler's LastActive update.
C6_Serialized ==
    ~(InPass("loop") /\ (InPass("handler") \/ pc["handler"] = "hStore"))

\* C7: a window eligible ever since start-up, once it has appeared in a snapshot, stays in
\* the registry and is in every later snapshot.
C7_StableWindowStays ==
    \A h \in stable \cap seen : h \in DOMAIN userWindows /\ h \in HwndsOf(published)

\* C8: after Activate(B) succeeded on a registered B and the handler's own pass saw B as the
\* foreground window and upserted it, the snapshot the handler publishes shows B with
\* IsForeground = true and LastActive # 0.
C8_ActivatedShown ==
    (publisher = "handler" /\ hret = "published" /\ foreground["handler"] = harg
        /\ harg \in upserted["handler"])
    => \E i \in DOMAIN published :
          /\ published[i].Hwnd = harg
          /\ published[i].IsForeground
          /\ published[i].LastActive # 0

\* C9: only the handler's Store changes the LastActive of a window that has been eligible
\* throughout.
C9_LastActiveOnlyByHandler ==
    [][(pc["handler"] = "hStore" /\ pc'["handler"] # "hStore")
        \/ \A h \in stable \cap (DOMAIN userWindows) \cap (DOMAIN userWindows') :
              userWindows'[h].LastActive = userWindows[h].LastActive]_vars

C11_ActivateAlwaysRefreshes ==
    (pc["handler"] = "idle" /\ hret \in {"absent", "published"})
    => /\ {"pass", "emit"} \subseteq hEffects
       /\ (hret = "absent" => "store" \notin hEffects)

\* C12: a pass whose enumeration reported an error is abandoned: it deletes no record from
\* the registry (stated for runs in which no activateWindow event has arrived, so that the
\* pass is the only code touching the registry).
C12_FailedPassKeepsRegistry ==
    [][\A p \in Procs :
          (enumErr[p] /\ activations = 0 /\ pc[p] = "collectDelete")
          => DOMAIN userWindows' = DOMAIN userWindows]_vars

\* C13: when a pass returns, every handle IsAltTabWindow accepted in that pass is in the
\* registry, a window with an empty title included.
C13_EligibleRegistered ==
    [][\A p \in Procs : PassReturns(p) => classified'[p] \subseteq DOMAIN userWindows']_vars

\* ------------------------------------------------------------------ the revision with windowsOrder
InitOrder ==
    /\ eligible \in SUBSET OrderHandles
    /\ osForeground \in eligible \cup {NoWindow}
    /\ osEvents = 0
    /\ userWindows = << >>
    /\ pc = [p \in Procs |-> "off"]
    /\ foreground = [p \in Procs |-> NoWindow]
    /\ rangeLeft = [p \in Procs |-> {}]
    /\ cur = [p \in Procs |-> NoCur]
    /\ enumq = [p \in Procs |-> << >>]
    /\ enumErr = [p \in Procs |-> FALSE]
    /\ classified = [p \in Procs |-> {}]
    /\ windows = << >>
    /\ selectedWindow = NoWindow
    /\ presses = 0
    /\ startSel = NoWindow
    /\ Win32Idle
    /\ SysIdle
    /\ untitled = {}
    /\ slice = [p \in Procs |-> << >>]
    /\ published = << >>
    /\ publisher = "none"
    /\ passes = 0
    /\ activations = 0
    /\ harg = NoWindow
    /\ hret = "none"
    /\ hEffects = {}
    /\ clock = 1
    /\ upserted = [p \in Procs |-> {}]
    /\ stable = eligible
    /\ seen = {}
    /\ windowsOrder = << >>
    /\ clearsTail \in BOOLEAN
    /\ opc = "enumerate"

OrderOsStep ==
    /\ opc \notin {"none", "exited"}
    /\ \E h \in OrderHandles :
          \/ OsOpen(h, MaxOrderOsEvents)
          \/ OsClose(h, MaxOrderOsEvents)
          \/ OsFocus(h, MaxOrderOsEvents)
          \/ OsRetitle(h, MaxOrderOsEvents)
    /\ UNCHANGED <<userWindows, pc, foreground, rangeLeft, cur, enumq, slice, passes, upserted>>
    /\ UNCHANGED <<handlerVars, pubVars, orderVars, enumErr, classified>>
    /\ UNCHANGED <<frontVars, win32Vars, sysVars>>

\* the reset Range: touched = false on every record
ResetTouched(m) == [h \in DOMAIN m |-> [m[h] EXCEPT !.touched = FALSE]]

\* the enumeration callback on each window of q in turn: a window whose caption query fails
\* is passed over; otherwise Store a fresh record and append the handle to windowsOrder when
\* it was not in the map
RECURSIVE EnumCallbacks(_, _, _, _)
EnumCallbacks(q, fg, m, order) ==
    IF q = << >>
    THEN [map |-> m, order |-> order]
    ELSE LET h == Head(q)
         IN  IF GetWindowTextW(h).err
             THEN EnumCallbacks(Tail(q), fg, m, order)
             ELSE EnumCallbacks(Tail(q), fg,
                                MapStore(m, h, UserWindow(h, TRUE, fg = h, 0)),
                                IF h \in DOMAIN m THEN order ELSE Append(order, h))

\* slices.Delete(s, i, i+1) on the backing array arr (1-based i, len the slice's length):
\* the elements after i move down one place; the vacated place len is zeroed or keeps its value
SlicesDelete(arr, len, i, zero) ==
    [k \in DOMAIN arr |->
        IF k < i \/ k > len THEN arr[k]
        ELSE IF k < len THEN arr[k + 1]
        ELSE IF zero THEN NoWindow ELSE arr[k]]

\* whether the prune loop drops the element it is looking at
Untouched(m, hwnd) == hwnd \notin DOMAIN m \/ ~m[hwnd].touched

\* for i, hwnd := range windowsOrder { i -= offset; ... }: the range runs over the n places
\* the slice had when the loop began and reads place i of the backing array when it gets there
RECURSIVE PruneLoop(_, _, _, _, _, _)
PruneLoop(i, arr, len, m, offset, zero) ==
    IF i > Len(arr)
    THEN [map |-> m, order |-> SubSeq(arr, 1, len)]
    ELSE LET hwnd == arr[i]
         IN  IF Untouched(m, hwnd)
             THEN PruneLoop(i + 1, SlicesDelete(arr, len, i - offset, zero), len - 1,
                            IF hwnd \in DOMAIN m THEN MapDelete(m, hwnd) ELSE m,
                            offset + 1, zero)
             ELSE PruneLoop(i + 1, arr, len, m, offset, zero)

\* the slice the pass returns: the records of windowsOrder's handles that the map holds
RECURSIVE SnapshotOf(_, _)
SnapshotOf(order, m) ==
    IF order = << >> THEN << >>
    ELSE IF Head(order) \in DOMAIN m
         THEN <<m[Head(order)]>> \o SnapshotOf(Tail(order), m)
         ELSE SnapshotOf(Tail(order), m)

\* GetForegroundWindow, the reset Range and EnumDesktopWindows with its callback
OrderEnumerate ==
    /\ opc = "enumerate"
    /\ passes < MaxOrderPasses
    /\ \E q \in Perms(eligible) :
          LET r == EnumCallbacks(q, osForeground, ResetTouched(userWindows), windowsOrder)
          IN  /\ userWindows' = r.map
              /\ windowsOrder' = r.order
    /\ passes' = passes + 1
    /\ opc' = "prune"
    /\ UNCHANGED <<osVars, pc, foreground, rangeLeft, cur, enumq, slice, upserted, clearsTail>>
    /\ UNCHANGED <<handlerVars, pubVars, enumErr, classified>>
    /\ UNCHANGED <<frontVars, win32Vars, sysVars>>

\* EnumDesktopWindows returns 0 after n callbacks: log.Fatalf ends the process
OrderEnumerateFails ==
    /\ opc = "enumerate"
    /\ passes < MaxOrderPasses
    /\ osEvents < MaxOrderOsEvents
    /\ osEvents' = osEvents + 1
    /\ \E q \in Perms(eligible) : \E n \in 0..Len(q) :
          LET r == EnumCallbacks(SubSeq(q, 1, n), osForeground, ResetTouched(userWindows), windowsOrder)
          IN  /\ userWindows' = r.map
              /\ windowsOrder' = r.order
    /\ enumErr' = [enumErr EXCEPT !["loop"] = TRUE]
    /\ passes' = passes + 1
    /\ opc' = "exited"
    /\ UNCHANGED <<eligible, osForeground, stable, untitled>>
    /\ UNCHANGED <<pc, foreground, rangeLeft, cur, enumq, slice, upserted, clearsTail>>
    /\ UNCHANGED <<handlerVars, pubVars, classified>>
    /\ UNCHANGED <<frontVars, win32Vars, sysVars>>

\* the prune loop over windowsOrder
OrderPrune ==
    /\ opc = "prune"
    /\ LET r == PruneLoop(1, windowsOrder, Len(windowsOrder), userWindows, 0, clearsTail)
       IN  /\ userWindows' = r.map
           /\ windowsOrder' = r.order
    /\ opc' = "snapshot"
    /\ UNCHANGED <<osVars, pc, foreground, rangeLeft, cur, enumq, slice, passes, upserted, clearsTail>>
    /\ UNCHANGED <<handlerVars, pubVars, enumErr, classified>>
    /\ UNCHANGED <<frontVars, win32Vars, sysVars>>

\* the snapshot loop, return, and the refresh loop's Emit
OrderSnapshot ==
    /\ opc = "snapshot"
    /\ published' = SnapshotOf(windowsOrder, userWindows)
    /\ publisher' = "loop"
    /\ seen' = seen \cup HwndsOf(published')
    /\ opc' = "enumerate"
    /\ UNCHANGED <<osVars, userWindows, pc, foreground, rangeLeft, cur, enumq, slice, passes, upserted>>
    /\ UNCHANGED <<handlerVars, windowsOrder, clearsTail, enumErr, classified>>
    /\ UNCHANGED <<frontVars, win32Vars, sysVars>>

NextOrder ==
    \/ OrderOsStep
    \/ OrderEnumerate
    \/ OrderEnumerateFails
    \/ OrderPrune
    \/ OrderSnapshot

SpecOrder == InitOrder /\ [][NextOrder]_vars

\* C2: the prune loop removes exactly the untouched records: afterwards no untouched handle is
\* left in userWindows or windowsOrder, and every touched handle is still where it was.
C2_PruneExact ==
    [][(opc = "prune" /\ opc' = "snapshot") =>
          \A h \in (DOMAIN userWindows) \cup Range(windowsOrder) :
              IF Untouched(userWindows, h)
              THEN h \notin DOMAIN userWindows' /\ h \notin Range(windowsOrder')
              ELSE h \in DOMAIN userWindows'
                   /\ (h \in Range(windowsOrder) => h \in Range(windowsOrder'))]_vars

\* C4: when a pass is complete, windowsOrder has no duplicates and holds exactly the keys of
\* userWindows.
C4_Lockstep ==
    opc = "enumerate" =>
        /\ \A i, j \in DOMAIN windowsOrder : i # j => windowsOrder[i] # windowsOrder[j]
        /\ Range(windowsOrder) = DOMAIN userWindows

\* ------------------------------------------------------------------ the front-end (App.tsx)
NumFrontHandles == 3
MaxLastActive == 1

FrontHandles == 1..NumFrontHandles
MaxPresses == NumFrontHandles + 1

\* sequences of distinct handles
InjSeqs(S) == UNION {Perms(T) : T \in SUBSET S}

\* the payloads a userWindowsChanged event can carry
Snapshots ==
    UNION {{[i \in DOMAIN q |-> UserWindow(q[i], TRUE, q[i] = fg, la[i])] :
               la \in [DOMAIN q -> 0..MaxLastActive], fg \in Range(q) \cup {NoWindow}} :
           q \in InjSeqs(FrontHandles)}

\* windows.sort((a, b) => b.LastActive - a.LastActive): Array.prototype.sort is stable
RECURSIVE InsertByLastActive(_, _)
InsertByLastActive(s, w) ==
    IF s = << >> THEN <<w>>
    ELSE IF Head(s).LastActive >= w.LastActive
         THEN <<Head(s)>> \o InsertByLastActive(Tail(s), w)
         ELSE <<w>> \o s

RECURSIVE SortByLastActive(_, _)
SortByLastActive(s, acc) ==
    IF s = << >> THEN acc
    ELSE SortByLastActive(Tail(s), InsertByLastActive(acc, Head(s)))

\* windows.findIndex((window) => window.Hwnd === hwnd): 0-based, -1 when there is none
FindIndex(ws, hwnd) ==
    IF \E i \in DOMAIN ws : ws[i].Hwnd = hwnd
    THEN (CHOOSE i \in DOMAIN ws : ws[i].Hwnd = hwnd /\ \A j \in 1..(i - 1) : ws[j].Hwnd # hwnd) - 1
    ELSE -1

\* the % of JavaScript: the result takes the sign of the dividend
JsRem(a, n) == IF a >= 0 THEN a % n ELSE 0 - ((0 - a) % n)

\* windows.length || 1
LengthOr1(ws) == IF Len(ws) = 0 THEN 1 ELSE Len(ws)

\* an index computation that stops at the ends of the list
NextIndexClamped(direction, currentIndex, ws) ==
    IF direction = "next"
    THEN IF currentIndex + 1 > Len(ws) - 1 THEN Len(ws) - 1 ELSE currentIndex + 1
    ELSE IF currentIndex - 1 < 0 THEN 0 ELSE currentIndex - 1

\* an index computation without the modulus
NextIndexNoWrap(direction, currentIndex, ws) ==
    IF direction = "next" THEN currentIndex + 1 ELSE currentIndex - 1

\* nextIndex, for either direction
NextIndex(direction, currentIndex, ws) ==
    IF direction = "next"
    THEN JsRem(currentIndex + 1, LengthOr1(ws))
    ELSE JsRem(currentIndex - 1 + LengthOr1(ws), LengthOr1(ws))

\* windows[i]?.Hwnd, undefined as NoWindow
HwndAt(ws, i) == IF (i + 1) \in DOMAIN ws THEN ws[i + 1].Hwnd ELSE NoWindow

\* the selection the systemKeyPressed handler computes: windows[nextIndex]?.Hwnd ?? windows[0]?.Hwnd
Sequencer(direction, ws, sel) ==
    LET nextIndex == NextIndex(direction, FindIndex(ws, sel), ws)
    IN  IF HwndAt(ws, nextIndex) # NoWindow THEN HwndAt(ws, nextIndex) ELSE HwndAt(ws, 0)

\* the selection the userWindowsChanged handler computes: kept when its window is still
\* there, else the first window with IsForeground, else the first window, else null
\* a handler that always selects the first window
SelectFirst(ws, sel) == HwndAt(ws, 0)

\* the selection the userWindowsChanged handler returns
SelectAfterChange(ws, sel) ==
    IF sel # NoWindow /\ \E i \in DOMAIN ws : ws[i].Hwnd = sel
    THEN sel
    ELSE IF \E i \in DOMAIN ws : ws[i].IsForeground
         THEN ws[CHOOSE i \in DOMAIN ws : ws[i].IsForeground /\ \A j \in 1..(i - 1) : ~ws[j].IsForeground].Hwnd
         ELSE HwndAt(ws, 0)

backendVars == <<osVars, userWindows, pc, foreground, rangeLeft, cur, enumq, slice, passes,
                 upserted, handlerVars, orderVars, enumErr, classified, publisher, seen>>

\* the back-end not started, the front-end as first rendered
AppIdle ==
    /\ eligible = {}
    /\ osForeground = NoWindow
    /\ osEvents = 0
    /\ untitled = {}
    /\ userWindows = << >>
    /\ pc = [p \in Procs |-> "off"]
    /\ foreground = [p \in Procs |-> NoWindow]
    /\ rangeLeft = [p \in Procs |-> {}]
    /\ cur = [p \in Procs |-> NoCur]
    /\ enumq = [p \in Procs |-> << >>]
    /\ enumErr = [p \in Procs |-> FALSE]
    /\ classified = [p \in Procs |-> {}]
    /\ slice = [p \in Procs |-> << >>]
    /\ published = << >>
    /\ publisher = "none"
    /\ passes = 0
    /\ activations = 0
    /\ harg = NoWindow
    /\ hret = "none"
    /\ hEffects = {}
    /\ clock = 1
    /\ upserted = [p \in Procs |-> {}]
    /\ stable = {}
    /\ seen = {}
    /\ windowsOrder = << >>
    /\ clearsTail = FALSE
    /\ opc = "none"
    /\ windows = << >>
    /\ selectedWindow = NoWindow
    /\ presses = 0
    /\ startSel = NoWindow

InitFront ==
    /\ AppIdle
    /\ Win32Idle
    /\ SysIdle

\* Events.On("userWindowsChanged", ...): sort the payload, keep or replace the selection
OnUserWindowsChanged(snapshot) ==
    /\ published' = snapshot
    /\ windows' = SortByLastActive(snapshot, << >>)
    /\ selectedWindow' = SelectAfterChange(windows', selectedWindow)
    /\ presses' = 0
    /\ startSel' = selectedWindow'
    /\ UNCHANGED <<backendVars, win32Vars, sysVars>>

\* Events.On("systemKeyPressed", ...) with event.data = "tab"; direction is the constant "next"
OnSystemKeyPressed ==
    /\ presses < MaxPresses
    /\ selectedWindow' = Sequencer("next", windows, selectedWindow)
    /\ presses' = presses + 1
    /\ UNCHANGED <<windows, startSel, published, backendVars, win32Vars, sysVars>>

\* onClick of a rendered window: activateWindow(hwnd) sets the selection (and emits activateWindow)
OnClick(hwnd) ==
    /\ hwnd \in HwndsOf(windows)
    /\ selectedWindow' = hwnd
    /\ presses' = 0
    /\ startSel' = hwnd
    /\ UNCHANGED <<windows, published, backendVars, win32Vars, sysVars>>

NextFront ==
    \/ \E snapshot \in Snapshots : OnUserWindowsChanged(snapshot)
    \/ OnSystemKeyPressed
    \/ \E hwnd \in FrontHandles : OnClick(hwnd)

SpecFront == InitFront /\ [][NextFront]_vars

\* Next applied n times
RECURSIVE NextTimes(_, _, _)
NextTimes(n, ws, h) == IF n = 0 THEN h ELSE NextTimes(n - 1, ws, Sequencer("next", ws, h))

\* C14 (as stated): for every nonempty list and every starting handle, also one that is not in
\* the list, Next applied len(list) times gives back the starting handle.
C14_FullCycle ==
    windows # << >> => \A h \in FrontHandles : NextTimes(Len(windows), windows, h) = h

\* C14 (amended): for every nonempty list and every starting handle that is in the list, Next
\* applied len(list) times gives back the starting handle; and after len(list) tab presses in
\* a row the selection is the one the presses started from.
C14_FullCycleOfMembers ==
    /\ \A h \in HwndsOf(windows) : NextTimes(Len(windows), windows, h) = h
    /\ (windows # << >> /\ presses = Len(windows)) => selectedWindow = startSel

C14_Witness ==
    /\ Len(windows) = NumFrontHandles
    /\ presses = Len(windows)
    /\ startSel = windows[2].Hwnd

\* C15: on every handle of the list Previous undoes Next and Next undoes Previous.
C15_MutualInverses ==
    \A h \in HwndsOf(windows) :
        /\ Sequencer("previous", windows, Sequencer("next", windows, h)) = h
        /\ Sequencer("next", windows, Sequencer("previous", windows, h)) = h

C15_Witness ==
    /\ Len(windows) = NumFrontHandles
    /\ presses = 1
    /\ startSel = windows[Len(windows)].Hwnd
    /\ selectedWindow = windows[1].Hwnd

\* C16: Next on a handle that is not in the list gives the first element, Next on the element
\* at (1-based) place i gives the element at place (i mod length) + 1, and Next on the empty
\* list gives no selection.
C16_NextCases ==
    \A h \in FrontHandles \cup {NoWindow} :
        LET r == Sequencer("next", windows, h)
        IN  /\ windows = << >> => r = NoWindow
            /\ (windows # << >> /\ h \notin HwndsOf(windows)) => r = windows[1].Hwnd
            /\ h \in HwndsOf(windows) => r = windows[(PosOf(windows, h) % Len(windows)) + 1].Hwnd

C16_Witness ==
    /\ windows = << >>
    /\ published = << >>
    /\ presses = 1
    /\ selectedWindow = NoWindow

\* C17: the list the front-end renders and cycles over has the handles of the latest
\* userWindowsChanged payload in the payload's order.
C17_RenderedInSnapshotOrder ==
    [i \in DOMAIN windows |-> windows[i].Hwnd] = [i \in DOMAIN published |-> published[i].Hwnd]

\* ------------------------------------------------------------------ win32.IsAltTabWindow
WS_EX_TOOLWINDOW == 128
DWM_CLOAKED_APP == 1
DWM_CLOAKED_SHELL == 2
DWM_CLOAKED_INHERITED == 4

appVars == <<backendVars, frontVars, published>>

\* x & bit # 0, for a bit that is a power of two
HasBit(x, bit) == (x \div bit) % 2 = 1

\* the extended styles tried: with and without the tool-window bit and the bit above it
ExStyles == {0, WS_EX_TOOLWINDOW, 2 * WS_EX_TOOLWINDOW, 3 * WS_EX_TOOLWINDOW}

\* every combination of the three cloak flags
CloakValues == 0..(DWM_CLOAKED_APP + DWM_CLOAKED_SHELL + DWM_CLOAKED_INHERITED)

\* a window as the OS describes it: rootOwner is what GetAncestor(hwnd, GA_ROOTOWNER) gives
\* (the window itself, another window, or NULL), cloakErr / exStyleFail say that the query fails
WindowStates ==
    [visible : BOOLEAN, rootOwner : {"self", "other", "null"}, cloakErr : BOOLEAN,
     cloaked : CloakValues, exStyleFail : BOOLEAN, exStyle : ExStyles]

\* DwmGetWindowAttribute(hwnd, DWMWA_CLOAKED, &cloaked, ...): the error, and cloaked as it is
\* afterwards (left at its zero value when the call fails)
DwmGetWindowAttribute(w) ==
    [err |-> w.cloakErr, cloaked |-> IF w.cloakErr THEN 0 ELSE w.cloaked]

\* GetWindowLongPtrW(hwnd, GWL_EXSTYLE): the style, 0 when the call fails
GetWindowLongPtrW(w) == IF w.exStyleFail THEN 0 ELSE w.exStyle

\* err == nil && cloaked == DWM_CLOAKED_SHELL
CloakedByShell(r) == ~r.err /\ r.cloaked = DWM_CLOAKED_SHELL

\* win32.IsAltTabWindow on a window the OS describes as w
IsAltTabWindowOf(w) ==
    IF ~w.visible THEN FALSE
    ELSE IF w.rootOwner # "self" THEN FALSE
    ELSE IF CloakedByShell(DwmGetWindowAttribute(w)) THEN FALSE
    ELSE IF HasBit(GetWindowLongPtrW(w), WS_EX_TOOLWINDOW) THEN FALSE
    ELSE TRUE

InitClassify ==
    /\ AppIdle
    /\ SysIdle
    /\ cwin \in WindowStates
    /\ cdone = FALSE
    /\ cverdict = FALSE
    /\ iconOs = NoIconOs
    /\ iconRet = NoIconRet

\* the pass asks win32.IsAltTabWindow(hWnd)
ClassifyWindow ==
    /\ ~cdone
    /\ cverdict' = IsAltTabWindowOf(cwin)
    /\ cdone' = TRUE
    /\ UNCHANGED <<cwin, iconOs, iconRet, appVars, sysVars>>

NextClassify == ClassifyWindow

SpecClassify == InitClassify /\ [][NextClassify]_vars

\* C18: when no query fails, IsAltTabWindow returns true exactly when the window is visible,
\* is its own root owner, has no shell bit in its cloak value (alone or together with the
\* app or inherited bits) and has no tool-window extended style.
C18_FourConditions ==
    (cdone /\ ~cwin.cloakErr /\ ~cwin.exStyleFail)
    => cverdict = (/\ cwin.visible
                   /\ cwin.rootOwner = "self"
                   /\ ~HasBit(cwin.cloaked, DWM_CLOAKED_SHELL)
                   /\ ~HasBit(cwin.exStyle, WS_EX_TOOLWINDOW))

\* C19: when the cloak query or the extended-style query fails, IsAltTabWindow returns false.
C19_FailClosed ==
    (cdone /\ (cwin.cloakErr \/ cwin.exStyleFail)) => ~cverdict

\* ------------------------------------------------------------------ win32.GetWindowIcon
\* the Source tag of each strategy, in the order of the cascade
IconSources ==
    <<"WM_GETICON", "WM_GETICON_S", "WM_GETICON_S2", "GCLP_HICON", "GCLP_HICONSM",
      "ExtractIconEx", "IDI_APPLICATION">>

Strategies == DOMAIN IconSources
ExtractStrategy == CHOOSE k \in Strategies : IconSources[k] = "ExtractIconEx"
StockStrategy == CHOOSE k \in Strategies : IconSources[k] = "IDI_APPLICATION"

\* what the OS can answer: per strategy the icon handle it yields (0: none, else a handle of
\* its own), the count ExtractIconExW returns, and the path hint the caller passes
IconAnswers ==
    [icon : [Strategies -> {0, 1}], numIcons : {0, 1}, exePath : {"", "app.exe"}]

\* the handle strategy k yields: its own handle, or 0
HandleOf(os, k) == IF os.icon[k] = 0 THEN 0 ELSE k

\* a cascade that tries the executable whatever the path hint
TryStrategyAlways(k, exePath) == TRUE

\* whether the cascade, having come to strategy k, tries it: if exePath != "" guards the
\* executable's icon
TryStrategy(k, exePath) == k # ExtractStrategy \/ exePath # ""

\* the icon strategy k ends with, 0 when it fails:
\* SendMessage / GetClassLongPtrW / LoadIconW give the handle; ExtractIconExW needs
\* numIcons > 0 && largeIcon != 0
StrategyIcon(k, os) ==
    IF k = ExtractStrategy
    THEN IF os.numIcons > 0 /\ HandleOf(os, k) # 0 THEN HandleOf(os, k) ELSE 0
    ELSE HandleOf(os, k)

\* the cascade from strategy k on; attempts are the strategies tried so far
RECURSIVE Cascade(_, _, _)
Cascade(k, os, attempts) ==
    IF k = StockStrategy
    THEN [done |-> TRUE, Icon |-> StrategyIcon(k, os), Source |-> IconSources[k],
          attempts |-> Append(attempts, k)]
    ELSE IF ~TryStrategy(k, os.exePath)
         THEN Cascade(k + 1, os, attempts)
         ELSE IF StrategyIcon(k, os) # 0
              THEN [done |-> TRUE, Icon |-> StrategyIcon(k, os), Source |-> IconSources[k],
                    attempts |-> Append(attempts, k)]
              ELSE Cascade(k + 1, os, Append(attempts, k))

InitIcon ==
    /\ AppIdle
    /\ SysIdle
    /\ cwin = NoWin
    /\ cdone = FALSE
    /\ cverdict = FALSE
    /\ iconOs \in IconAnswers
    /\ iconRet = NoIconRet

\* iconInfo := win32.GetWindowIcon(hWnd, exePath)
GetWindowIcon ==
    /\ ~iconRet.done
    /\ iconRet' = Cascade(1, iconOs, << >>)
    /\ UNCHANGED <<cwin, cdone, cverdict, iconOs, appVars, sysVars>>

NextIcon == GetWindowIcon

SpecIcon == InitIcon /\ [][NextIcon]_vars

\* the strategies the claim counts for a path hint, and those of them that succeed
Counted(os) == {k \in Strategies : k # ExtractStrategy \/ os.exePath # ""}
Succeeding(os) ==
    {k \in Counted(os) :
        IF k = ExtractStrategy THEN os.numIcons > 0 /\ os.icon[k] # 0 ELSE os.icon[k] # 0}
Lowest(S) == CHOOSE k \in S : \A j \in S : k <= j

\* C20: GetWindowIcon returns the icon and the source tag of the lowest-numbered succeeding
\* strategy; the strategies it tried are, in increasing order, all those up to that one (all
\* of them when none succeeds); the executable's icon is left out exactly when the path hint
\* is empty.
C20_CascadeOrder ==
    iconRet.done =>
        LET last == IF Succeeding(iconOs) = {} THEN StockStrategy ELSE Lowest(Succeeding(iconOs))
        IN  /\ \A i, j \in DOMAIN iconRet.attempts : i < j => iconRet.attempts[i] < iconRet.attempts[j]
            /\ Range(iconRet.attempts) = {k \in Counted(iconOs) : k <= last}
            /\ Succeeding(iconOs) # {} =>
                  /\ iconRet.Icon = last
                  /\ iconRet.Source = IconSources[last]
            /\ (last >= ExtractStrategy) =>
                  (ExtractStrategy \in Range(iconRet.attempts) <=> iconOs.exePath # "")

C20_Witness ==
    /\ iconRet.done
    /\ iconRet.Source = "ExtractIconEx"
    /\ iconOs.icon[StockStrategy] # 0

\* ------------------------------------------------------------------ one window's path and icon
\* The body of the enumeration loop of GetAltTabWindows from the process lookup to the
\* conversion of the icon, for one eligible, titled window.
\* SpecResolve : that loop body over every answer of the OS.

\* the strategies that may yield an icon here
ResolveStrategies == {1, ExtractStrategy, StockStrategy}

\* the calls of HICONToBase64Png that can fail, in the order it makes them
Stages == <<"GetIconInfo", "GetObjectW", "GetDC", "GetDIBits", "Encode">>
Outcomes == Range(Stages) \cup {"ok"}
StageOf(o) == IF o = "ok" THEN Len(Stages) + 1 ELSE CHOOSE i \in DOMAIN Stages : Stages[i] = o

\* what the OS can answer: whether OpenProcess and QueryFullProcessImageNameW succeed, the
\* icon each strategy yields, the count of ExtractIconExW, and for each icon how its
\* conversion goes
ResolveAnswers ==
    [openOk : BOOLEAN, pathOk : BOOLEAN,
     icon : {f \in [Strategies -> {0, 1}] : \A k \in Strategies \ ResolveStrategies : f[k] = 0},
     numIcons : {0, 1},
     conv : [ResolveStrategies -> Outcomes]]

\* exePath after the process lookup
ExePathOf(os) == IF os.openOk /\ os.pathOk THEN "app.exe" ELSE ""

\* the answers GetWindowIcon sees
IconOsOf(os) == [icon |-> os.icon, numIcons |-> os.numIcons, exePath |-> ExePathOf(os)]

\* win32.HICONToBase64Png(icon, pngClsId): whether it returns an error, and the handles it
\* acquires and releases.  GetIconInfo yields the mask and the color bitmap; the mask is
\* deleted at once, the color bitmap by a defer; GetDC yields the device context, released
\* by a defer.
HICONToBase64Png(icon, os) ==
    LET o == IF icon = 0 THEN "GetIconInfo" ELSE os.conv[icon]
        f == StageOf(o)
        gotBitmaps == f > StageOf("GetIconInfo")
        gotDC == f > StageOf("GetDC")
    IN  [err |-> o # "ok",
         acquired |-> [r \in Resources |->
                          IF r \in {"mask", "color"} /\ gotBitmaps THEN 1
                          ELSE IF r = "dc" /\ gotDC THEN 1 ELSE 0],
         released |-> [r \in Resources |->
                          IF r = "mask" /\ gotBitmaps THEN 1
                          ELSE IF r = "color" /\ gotBitmaps THEN 1
                          ELSE IF r = "dc" /\ gotDC THEN 1 ELSE 0]]

InitResolve ==
    /\ AppIdle
    /\ Win32Idle
    /\ ShutdownIdle
    /\ SwapIdle
    /\ ChanIdle
    /\ PopupIdle
    /\ ActivationIdle
    /\ rpc = "open"
    /\ rOs \in ResolveAnswers
    /\ rIcon = NoIconRet
    /\ acq = [r \in Resources |-> 0]
    /\ rel = [r \in Resources |-> 0]
    /\ rOut = "none"

resolveRest == <<appVars, win32Vars, shutdownVars, swapVars, chanVars, popupVars, activationVars>>

\* hProcess, err := windows.OpenProcess(...); if err == nil { defer windows.CloseHandle(hProcess) ... }
OpenProcess ==
    /\ rpc = "open"
    /\ acq' = IF rOs.openOk THEN [acq EXCEPT !["process"] = @ + 1] ELSE acq
    /\ rpc' = "icon"
    /\ UNCHANGED <<rOs, rIcon, rel, rOut, resolveRest>>

\* iconInfo := win32.GetWindowIcon(hWnd, exePath); ExtractIconExW hands over an icon of its own
ResolveIcon ==
    /\ rpc = "icon"
    /\ rIcon' = Cascade(1, IconOsOf(rOs), << >>)
    /\ acq' = IF rIcon'.Source = "ExtractIconEx" THEN [acq EXCEPT !["exeIcon"] = @ + 1] ELSE acq
    /\ rpc' = "convert"
    /\ UNCHANGED <<rOs, rel, rOut, resolveRest>>

\* iconB64, err := win32.HICONToBase64Png(iconInfo.Icon, pngClsId); if err != nil { continue };
\* otherwise the window is stored
ConvertIcon ==
    /\ rpc = "convert"
    /\ LET r == HICONToBase64Png(rIcon.Icon, rOs)
       IN  /\ acq' = [x \in Resources |-> acq[x] + r.acquired[x]]
           /\ rel' = [x \in Resources |-> rel[x] + r.released[x]]
           /\ rOut' = IF r.err THEN "dropped" ELSE "stored"
    /\ rpc' = "next"
    /\ UNCHANGED <<rOs, rIcon, resolveRest>>

\* GetAltTabWindows returns: the deferred CloseHandle calls run
ResolveReturn ==
    /\ rpc = "next"
    /\ rel' = [rel EXCEPT !["process"] = @ + acq["process"]]
    /\ rpc' = "returned"
    /\ UNCHANGED <<rOs, rIcon, acq, rOut, resolveRest>>

NextResolve == OpenProcess \/ ResolveIcon \/ ConvertIcon \/ ResolveReturn

SpecResolve == InitResolve /\ [][NextResolve]_vars

\* C21: an eligible window is left out of a pass for icon reasons only if the conversion of
\* the generic application icon fails too.
C21_DroppedOnlyIfGenericFails ==
    rOut = "dropped" =>
        HICONToBase64Png(StrategyIcon(StockStrategy, IconOsOf(rOs)), rOs).err

\* C22: when the loop body of one window is over, every native handle it acquired has been
\* released exactly once: none is outstanding, none was released twice.
C22_ReleasedOnce ==
    rpc = "next" => \A r \in Resources : rel[r] = acq[r]

\* ------------------------------------------------------------------ main: hook, message loop, exit
\* SpecShutdown : main from SetWindowsHookExW on: the message-loop goroutine, the refresh
\*                goroutine and the return of app.Run.
MaxMessages == 3
MaxRefreshes == 3

\* int(ret) of a GetMessageW call: -1 on an error, 0 for WM_QUIT, nonzero for any other message
GetMessageRets == {-1, 0, 1}

\* win32.GetMessage: the error it returns is non-nil only if int(ret) < -1
GetMessage(ret) == [ret |-> ret, err |-> ret < -1]

\* the process has exited: main returned, or log.Fatal ended it
Exited == mainPc \in {"returned", "fatal"}

InitShutdown ==
    /\ AppIdle
    /\ Win32Idle
    /\ ResolveIdle
    /\ SwapIdle
    /\ ChanIdle
    /\ PopupIdle
    /\ ActivationIdle
    /\ mainPc = "install"
    /\ msgPc = "off"
    /\ msgRet = 1
    /\ hook = 0
    /\ hookInstalled = FALSE
    /\ dispatched = 0
    /\ refreshes = 0

shutdownRest == <<appVars, win32Vars, resolveVars, swapVars, chanVars, popupVars, activationVars>>

\* hook, err := win32.SetWindowsHookExW(...); if err != nil { log.Fatal(...) }; the two
\* goroutines start
InstallHook(ok) ==
    /\ mainPc = "install"
    /\ IF ok
       THEN /\ hook' = 1
            /\ hookInstalled' = TRUE
            /\ mainPc' = "run"
            /\ msgPc' = "getMessage"
       ELSE /\ mainPc' = "fatal"
            /\ UNCHANGED <<hook, hookInstalled, msgPc>>
    /\ UNCHANGED <<msgRet, dispatched, refreshes, shutdownRest>>

\* one iteration of the message loop: GetMessage, break on an error, else TranslateMessage and
\* DispatchMessage; after the loop UnhookWindowsHookEx(hook) and hook = 0
MessageLoop(ret) ==
    /\ ~Exited
    /\ msgPc = "getMessage"
    /\ dispatched < MaxMessages
    /\ msgRet' = ret
    /\ IF GetMessage(ret).err
       THEN /\ hookInstalled' = FALSE
            /\ hook' = 0
            /\ msgPc' = "done"
            /\ UNCHANGED dispatched
       ELSE /\ dispatched' = dispatched + 1
            /\ UNCHANGED <<hook, hookInstalled, msgPc>>
    /\ UNCHANGED <<mainPc, refreshes, shutdownRest>>

\* one iteration of the refresh goroutine: Emit("userWindowsChanged", GetAltTabWindows()) and
\* the wait of one second
RefreshLoop ==
    /\ mainPc = "run"
    /\ refreshes < MaxRefreshes
    /\ refreshes' = refreshes + 1
    /\ UNCHANGED <<mainPc, msgPc, msgRet, hook, hookInstalled, dispatched, shutdownRest>>

\* err = app.Run() returns; if err != nil { log.Fatal(err) }; main returns
AppRunReturns(failed) ==
    /\ mainPc = "run"
    /\ mainPc' = IF failed THEN "fatal" ELSE "returned"
    /\ UNCHANGED <<msgPc, msgRet, hook, hookInstalled, dispatched, refreshes, shutdownRest>>

NextShutdown ==
    \/ \E ok \in BOOLEAN : InstallHook(ok)
    \/ \E ret \in GetMessageRets : MessageLoop(ret)
    \/ RefreshLoop
    \/ \E failed \in BOOLEAN : AppRunReturns(failed)

SpecShutdown == InitShutdown /\ [][NextShutdown]_vars

\* C23: on every exit path the keyboard hook installed at start-up has been unhooked by the
\* time the process exits.
C23_UnhookedAtExit ==
    Exited => ~hookInstalled

\* ------------------------------------------------------------------ the channel swap
\* SpecSwap : the swap loop of HICONToBase64Png over every buffer GetDIBits can have filled.
MaxPixels == 2
ByteValues == {0, 128, 255}

\* buffers of width * height * 4 bytes
PixelBuffers == UNION {[1..(4 * n) -> ByteValues] : n \in 1..MaxPixels}

\* a loop body that exchanges the first two bytes of the pixel
SwapPixelGreen(b, i) == [b EXCEPT ![i + 1] = b[i + 2], ![i + 2] = b[i + 1]]

\* buf[i], buf[i+2] = buf[i+2], buf[i]   (i counts from 0, sequences from 1)
SwapPixel(b, i) == [b EXCEPT ![i + 1] = b[i + 3], ![i + 3] = b[i + 1]]

\* for i := 0; i < len(buf); i += 4 { ... }, from index i on
RECURSIVE SwapLoop(_, _)
SwapLoop(b, i) == IF i < Len(b) THEN SwapLoop(SwapPixel(b, i), i + 4) ELSE b

InitSwap ==
    /\ AppIdle
    /\ Win32Idle
    /\ ResolveIdle
    /\ ShutdownIdle
    /\ ChanIdle
    /\ PopupIdle
    /\ ActivationIdle
    /\ pix \in PixelBuffers
    /\ buf = pix
    /\ swaps = 0

\* the swap loop runs once over buf
SwapChannels ==
    /\ swaps = 0
    /\ buf' = SwapLoop(buf, 0)
    /\ swaps' = 1
    /\ UNCHANGED <<pix, appVars, win32Vars, resolveVars, shutdownVars, chanVars, popupVars,
                   activationVars>>

NextSwap == SwapChannels

SpecSwap == InitSwap /\ [][NextSwap]_vars

\* C24: the swap maps every pixel (b, g, r, a) of the captured buffer to (r, g, b, a): bytes 0
\* and 2 of each pixel are exchanged, bytes 1 and 3 unchanged, the length is kept, and a
\* second application gives back the captured buffer.
C24_SwapsBlueAndRed ==
    swaps = 1 =>
        /\ Len(buf) = Len(pix)
        /\ \A k \in 0..((Len(pix) \div 4) - 1) :
              /\ buf[4 * k + 1] = pix[4 * k + 3]
              /\ buf[4 * k + 2] = pix[4 * k + 2]
              /\ buf[4 * k + 3] = pix[4 * k + 1]
              /\ buf[4 * k + 4] = pix[4 * k + 4]
        /\ SwapLoop(buf, 0) = pix

C24_Witness ==
    /\ swaps = 1
    /\ Len(pix) = 8
    /\ pix[1] # pix[3]
    /\ pix[5] # pix[7]
    /\ pix[2] # pix[1]
    /\ buf # pix

\* ------------------------------------------------------------------ the refresh loop alone
\* SpecLoop : the refresh goroutine of main and the OS, without activateWindow events; the
\*            goroutine is scheduled again and again, and every OS call it makes returns.
\* a loop that goes back to its wait without emitting
EmitNothing(p) ==
    /\ pc[p] = "collect"
    /\ rangeLeft[p] = {}
    /\ pc' = [pc EXCEPT ![p] = IF p = "loop" THEN "tick" ELSE "idle"]
    /\ enumErr' = [enumErr EXCEPT ![p] = FALSE]
    /\ UNCHANGED <<osVars, userWindows, foreground, rangeLeft, cur, enumq, slice, passes, upserted>>
    /\ UNCHANGED <<handlerVars, pubVars, orderVars, classified>>
    /\ UNCHANGED <<frontVars, win32Vars, sysVars>>

\* app.Event.Emit("userWindowsChanged", GetAltTabWindows()) in the refresh goroutine
EmitSnapshot(p) == Emit(p)

RefreshPass ==
    \/ GetForeground("loop")
    \/ ResetVisit("loop")
    \/ ResetStore("loop")
    \/ ListDesktopWindows("loop")
    \/ ListDesktopWindowsFails("loop")
    \/ Consume("loop")
    \/ Load("loop")
    \/ Store("loop")
    \/ EnumDone("loop")
    \/ CollectVisit("loop")
    \/ CollectDelete("loop")
    \/ EmitSnapshot("loop")

NextLoop ==
    \/ OsStep
    \/ LoopTick
    \/ RefreshPass

SpecLoop == Init /\ [][NextLoop]_vars /\ WF_vars(RefreshPass)

\* C25: each iteration of the refresh loop emits exactly one notification, when its pass has
\* returned, carrying that pass's snapshot (no other step of the iteration publishes), and
\* every pass that has begun comes to that point.
C25_PublishesEveryPass ==
    /\ [][IF pc["loop"] = "collect" /\ pc'["loop"] = "tick"
          THEN published' = slice["loop"] /\ publisher' = "loop"
          ELSE UNCHANGED <<published, publisher>>]_vars
    /\ (pc["loop"] # "tick") ~> (pc["loop"] = "tick" /\ publisher = "loop")

C25_Witness ==
    /\ passes = MaxPasses
    /\ pc["loop"] = "tick"
    /\ publisher = "loop"
    /\ published = slice["loop"]
    /\ published # << >>

\* ------------------------------------------------------------------ the last visible active popup
\* SpecPopup : win32.GetLastVisibleActivePopUpOfWindow over every popup graph.
NumPopWindows == 3
MaxLastActivePopupIterations == 50

PopWindows == 1..NumPopWindows

\* what the OS can answer: the last active popup of each window (possibly itself, possibly
\* none), the visible windows, and the window asked about
PopupGraphs(W) == [lastPopup : [W -> W \cup {NoWindow}], visible : SUBSET W]

\* user32 GetLastActivePopup and IsWindowVisible; the null window has no popup and is not visible
GetLastActivePopup(os, w) == IF w = NoWindow THEN NoWindow ELSE os.lastPopup[w]
IsWindowVisible(os, w) == w \in os.visible

\* the loop of GetLastVisibleActivePopUpOfWindow with level iterations left, counting the
\* GetLastActivePopup calls
RECURSIVE PopupWalk(_, _, _, _)
PopupWalk(os, currentWindow, level, queries) ==
    IF level > 0
    THEN LET lastPopUp == GetLastActivePopup(os, currentWindow)
         IN  IF IsWindowVisible(os, lastPopUp)
             THEN [done |-> TRUE, result |-> lastPopUp, queries |-> queries + 1]
             ELSE IF lastPopUp = currentWindow
                  THEN [done |-> TRUE, result |-> NoWindow, queries |-> queries + 1]
                  ELSE PopupWalk(os, lastPopUp, level - 1, queries + 1)
    ELSE [done |-> TRUE, result |-> NoWindow, queries |-> queries]

\* a walk that starts with one more iteration
GetLastVisibleActivePopUpLonger(os, hwnd) ==
    PopupWalk(os, hwnd, MaxLastActivePopupIterations + 1, 0)

\* level := MaxLastActivePopupIterations; currentWindow := hwnd; for level > 0 { ... }
GetLastVisibleActivePopUpOfWindow(os, hwnd) ==
    PopupWalk(os, hwnd, MaxLastActivePopupIterations, 0)

InitPopup ==
    /\ AppIdle
    /\ Win32Idle
    /\ ResolveIdle
    /\ ShutdownIdle
    /\ SwapIdle
    /\ ChanIdle
    /\ ActivationIdle
    /\ popOs \in [graph : PopupGraphs(PopWindows), hwnd : PopWindows]
    /\ popRet = NoPopRet

\* a caller asks for the last visible active popup of popOs.hwnd
WalkPopups ==
    /\ ~popRet.done
    /\ popRet' = GetLastVisibleActivePopUpOfWindow(popOs.graph, popOs.hwnd)
    /\ UNCHANGED <<popOs, appVars, win32Vars, resolveVars, shutdownVars, swapVars, chanVars,
                   activationVars>>

NextPopup == WalkPopups

SpecPopup == InitPopup /\ [][NextPopup]_vars

\* C30: GetLastVisibleActivePopUpOfWindow returns after at most MaxLastActivePopupIterations
\* popup queries, whatever the popup graph, cycles of invisible windows included, and what it
\* returns is 0 or a window reported visible.
C30_BoundedWalk ==
    popRet.done =>
        /\ popRet.queries <= MaxLastActivePopupIterations
        /\ popRet.result = NoWindow \/ IsWindowVisible(popOs.graph, popRet.result)

\* the walk went round a cycle of invisible windows until the iterations ran out
C30_Witness ==
    /\ popRet.done
    /\ popRet.queries = MaxLastActivePopupIterations
    /\ popRet.result = NoWindow
    /\ popOs.graph.visible # {}
    /\ popOs.graph.lastPopup[popOs.hwnd] # popOs.hwnd

\* ------------------------------------------------------------------ eligibility for activation
\* SpecActivation : win32.EligibleForActivation over every answer of its queries.
NumActWindows == 2
ActWindows == 1..NumActWindows

\* class names, as sequences of characters
WindowsClassNamesToSkip ==
    {<<"S", "h", "e", "l", "l", "_", "T", "r", "a", "y", "W", "n", "d">>, <<"D", "V", "2", "C", "o", "n", "t", "r", "o", "l", "H", "o", "s", "t">>, <<"M", "s", "g", "r", "I", "M", "E", "W", "i", "n", "d", "o", "w", "C", "l", "a", "s", "s">>, <<"S", "y", "s", "S", "h", "a", "d", "o", "w">>, <<"B", "u", "t", "t", "o", "n">>}

MediaBarFlyout == <<"W", "M", "P", "9", "M", "e", "d", "i", "a", "B", "a", "r", "F", "l", "y", "o", "u", "t">>

\* the class names the OS answers with; the empty one stands for a failed query (the wrapper
\* returns an error exactly when the length is 0)
ClassNames ==
    WindowsClassNamesToSkip \cup
    {MediaBarFlyout, MediaBarFlyout \o <<"2">>, SubSeq(MediaBarFlyout, 1, Len(MediaBarFlyout) - 1),
     <<"N", "o", "t", "e", "p", "a", "d">>, <<"b", "u", "t", "t", "o", "n">>, <<"B", "u", "t", "t", "o", "n">> \o <<"s">>, << >>}

\* win32.GetClassNameW: the length copied, and an error whenever that length is 0
GetClassNameW(name) == [length |-> Len(name), err |-> (Len(name) = 0)]

\* a test for the media bar's class name itself
IsMediaBarFlyoutExactly(classNameStr) == classNameStr = MediaBarFlyout

\* len(classNameStr) >= 18 && classNameStr[:18] == "<<"W", "M", "P", "9", "M", "e", "d", "i", "a", "B", "a", "r", "F", "l", "y", "o", "u", "t">>9MediaBarFlyout"
IsMediaBarFlyout(classNameStr) ==
    Len(classNameStr) >= 18 /\ SubSeq(classNameStr, 1, 18) = MediaBarFlyout

\* win32.EligibleForActivation(hwnd, shellWindow) on the answers os
EligibleForActivation(os) ==
    IF os.hwnd = os.shellWindow THEN FALSE
    ELSE IF GetLastVisibleActivePopUpOfWindow(os.graph, os.rootOwner).result # os.hwnd THEN FALSE
    ELSE IF GetClassNameW(os.className).err \/ GetClassNameW(os.className).length = 0 THEN FALSE
    ELSE IF os.className \in WindowsClassNamesToSkip THEN FALSE
    ELSE IF IsMediaBarFlyout(os.className) THEN FALSE
    ELSE TRUE

InitActivation ==
    /\ AppIdle
    /\ Win32Idle
    /\ ResolveIdle
    /\ ShutdownIdle
    /\ SwapIdle
    /\ ChanIdle
    /\ PopupIdle
    /\ actOs \in [hwnd : ActWindows, shellWindow : ActWindows, rootOwner : ActWindows,
                  graph : PopupGraphs(ActWindows), className : ClassNames]
    /\ actRet = NoActRet

\* a caller asks whether actOs.hwnd is eligible for activation
TestActivation ==
    /\ ~actRet.done
    /\ actRet' = [done |-> TRUE, result |-> EligibleForActivation(actOs)]
    /\ UNCHANGED <<actOs, appVars, win32Vars, resolveVars, shutdownVars, swapVars, chanVars,
                   popupVars>>

NextActivation == TestActivation

SpecActivation == InitActivation /\ [][NextActivation]_vars

\* the first window of the popup chain of w that is visible, if the chain has one before it
\* ends or closes on itself
RECURSIVE FirstVisiblePopup(_, _, _)
FirstVisiblePopup(os, w, visited) ==
    LET next == GetLastActivePopup(os, w)
    IN  IF next \in os.visible THEN next
        ELSE IF next = NoWindow \/ next \in visited \cup {w} THEN NoWindow
        ELSE FirstVisiblePopup(os, next, visited \cup {w})

\* C26: EligibleForActivation returns true if and only if the window is not the shell window,
\* the last visible active popup of its root owner is the window itself, the class-name query
\* yields a non-empty name, that name is none of the five denylisted names and does not begin
\* with <<"W", "M", "P", "9", "M", "e", "d", "i", "a", "B", "a", "r", "F", "l", "y", "o", "u", "t">>9MediaBarFlyout; a window whose root owner has a different visible popup in front
\* is rejected.
C26_EligibleIff ==
    actRet.done =>
        /\ actRet.result <=>
              /\ actOs.hwnd # actOs.shellWindow
              /\ FirstVisiblePopup(actOs.graph, actOs.rootOwner, {}) = actOs.hwnd
              /\ actOs.className # << >>
              /\ actOs.className \notin {<<"S", "h", "e", "l", "l", "_", "T", "r", "a", "y", "W", "n", "d">>, <<"D", "V", "2", "C", "o", "n", "t", "r", "o", "l", "H", "o", "s", "t">>, <<"M", "s", "g", "r", "I", "M", "E", "W", "i", "n", "d", "o", "w", "C", "l", "a", "s", "s">>, <<"S", "y", "s", "S", "h", "a", "d", "o", "w">>, <<"B", "u", "t", "t", "o", "n">>}
              /\ ~(\E tail \in {<< >>, <<"2">>} : actOs.className = <<"W", "M", "P", "9", "M", "e", "d", "i", "a", "B", "a", "r", "F", "l", "y", "o", "u", "t">> \o tail)
        /\ (\E p \in actOs.graph.visible :
               p # actOs.hwnd /\ actOs.graph.lastPopup[actOs.rootOwner] = p) => ~actRet.result

C26_Witness ==
    /\ actRet.done
    /\ actRet.result
    /\ actOs.className = <<"B", "u", "t", "t", "o", "n">> \o <<"s">>
    /\ actOs.rootOwner # actOs.hwnd

\* ------------------------------------------------------------------ untouched records
\* C27: when the prune step of a pass is over, every record left in the registry has
\* touched = true: no record the pass left untouched survives its prune step.
C27_NoUntouchedSurvives ==
    opc = "snapshot" => \A h \in DOMAIN userWindows : userWindows[h].touched

\* ------------------------------------------------------------------ the enumeration channel
\* SpecChan : the goroutine of win32.ListDesktopWindows, its unbuffered channel and the range
\*            loop of GetAltTabWindows that receives from it; both are scheduled again and again.
NumChanHandles == 3
ChanHandles == 1..NumChanHandles

\* EnumWindowsResult{Window: hwnd} and EnumWindowsResult{Error: err}
WindowResult(h) == [Window |-> h, Error |-> FALSE]
ErrorResult == [Window |-> NoWindow, Error |-> TRUE]

\* the handles the OS reports before EnumDesktopWindows returns: each at most once
CallbackSeqs ==
    UNION {{q \in [1..n -> ChanHandles] : \A i, j \in 1..n : i # j => q[i] # q[j]} :
              n \in 0..NumChanHandles}

InitChan ==
    /\ AppIdle
    /\ Win32Idle
    /\ ResolveIdle
    /\ ShutdownIdle
    /\ SwapIdle
    /\ PopupIdle
    /\ ActivationIdle
    /\ callbacks \in CallbackSeqs
    /\ cbDone = 0
    /\ enumFails \in BOOLEAN
    /\ ch = << >>
    /\ chClosed = FALSE
    /\ prodPc = "enum"
    /\ consPc = "recv"
    /\ received = << >>

chanRest == <<appVars, win32Vars, resolveVars, shutdownVars, swapVars, popupVars, activationVars>>

\* enumDesktopWindowsCallback: *ch <- EnumWindowsResult{Window: hwnd}; the send blocks
EnumCallback ==
    /\ prodPc = "enum"
    /\ cbDone < Len(callbacks)
    /\ ch' = <<WindowResult(callbacks[cbDone + 1])>>
    /\ prodPc' = "sendWindow"
    /\ UNCHANGED <<callbacks, cbDone, enumFails, chClosed, consPc, received, chanRest>>

\* EnumDesktopWindows returns; if err != nil { ch <- EnumWindowsResult{Error: err} }
EnumReturns ==
    /\ prodPc = "enum"
    /\ cbDone = Len(callbacks)
    /\ IF enumFails
       THEN /\ ch' = <<ErrorResult>>
            /\ prodPc' = "sendError"
       ELSE /\ prodPc' = "close"
            /\ UNCHANGED ch
    /\ UNCHANGED <<callbacks, cbDone, enumFails, chClosed, consPc, received, chanRest>>

\* a goroutine that returns without closing the channel
ReturnWithoutClose ==
    /\ prodPc = "close"
    /\ prodPc' = "done"
    /\ UNCHANGED <<callbacks, cbDone, enumFails, ch, chClosed, consPc, received, chanRest>>

\* close(ch)
CloseChannel ==
    /\ prodPc = "close"
    /\ chClosed' = TRUE
    /\ prodPc' = "done"
    /\ UNCHANGED <<callbacks, cbDone, enumFails, ch, consPc, received, chanRest>>

\* for res := range ch: the receive meets the blocked send; the callback returns 1, or the
\* goroutine goes on to close
Receive ==
    /\ consPc = "recv"
    /\ ch # << >>
    /\ received' = Append(received, ch[1])
    /\ ch' = << >>
    /\ consPc' = "body"
    /\ cbDone' = IF prodPc = "sendWindow" THEN cbDone + 1 ELSE cbDone
    /\ prodPc' = IF prodPc = "sendWindow" THEN "enum" ELSE "close"
    /\ UNCHANGED <<callbacks, enumFails, chClosed, chanRest>>

\* the body of the range loop: every path ends the iteration (continue or fall through), none
\* leaves the loop
RangeBody ==
    /\ consPc = "body"
    /\ consPc' = "recv"
    /\ UNCHANGED <<callbacks, cbDone, enumFails, ch, chClosed, prodPc, received, chanRest>>

\* the range loop ends on the closed channel
RangeEnds ==
    /\ consPc = "recv"
    /\ ch = << >>
    /\ chClosed
    /\ consPc' = "done"
    /\ UNCHANGED <<callbacks, cbDone, enumFails, ch, chClosed, prodPc, received, chanRest>>

Producer == EnumCallback \/ EnumReturns \/ CloseChannel
Consumer == Receive \/ RangeBody \/ RangeEnds

NextChan == Producer \/ Consumer

SpecChan == InitChan /\ [][NextChan]_vars /\ WF_vars(Producer) /\ WF_vars(Consumer)

\* what the channel has to deliver: the reported handles in callback order, then the error
Expected ==
    [i \in 1..Len(callbacks) |-> WindowResult(callbacks[i])]
        \o (IF enumFails THEN <<ErrorResult>> ELSE << >>)

\* C28: the channel delivers each reported handle exactly once, in callback order, the
\* enumeration error (if any) last, and is closed only after all of them; the producer
\* goroutine comes to its end and so does the range loop of the consumer.
C28_DeliversAllThenCloses ==
    /\ [](/\ Len(received) <= Len(Expected)
          /\ received = SubSeq(Expected, 1, Len(received))
          /\ (chClosed \/ consPc = "done") => received = Expected)
    /\ <>(prodPc = "done" /\ consPc = "done" /\ chClosed)

C28_Witness ==
    /\ prodPc = "done"
    /\ consPc = "done"
    /\ enumFails
    /\ Len(received) = NumChanHandles + 1
    /\ received[Len(received)] = ErrorResult

\* ------------------------------------------------------------------ the front-end's selection
\* C29: after any sequence of userWindowsChanged, tab and click events the selected handle is
\* the handle of a window of the current list when the list is nonempty, and empty when the
\* list is empty; a userWindowsChanged event keeps the selection if its window is in the new
\* list, otherwise selects the foreground window of the new list, otherwise its first window.
C29_SelectionInList ==
    /\ [](IF windows = << >>
          THEN selectedWindow = NoWindow
          ELSE selectedWindow \in HwndsOf(windows))
    /\ [][(\E snapshot \in Snapshots : OnUserWindowsChanged(snapshot)) =>
             IF selectedWindow \in HwndsOf(windows')
             THEN selectedWindow' = selectedWindow
             ELSE IF \E i \in DOMAIN windows' : windows'[i].IsForeground
                  THEN \E i \in DOMAIN windows' :
                          /\ windows'[i].IsForeground
                          /\ selectedWindow' = windows'[i].Hwnd
                  ELSE IF windows' # << >>
                       THEN selectedWindow' = windows'[1].Hwnd
                       ELSE selectedWindow' = NoWindow]_vars

C29_Witness ==
    /\ Len(windows) = NumFrontHandles
    /\ published = windows
    /\ presses = 0
    /\ selectedWindow \in HwndsOf(windows)
    /\ selectedWindow # windows[1].Hwnd
    /\ ~windows[PosOf(windows, selectedWindow)].IsForeground
    /\ \E i \in DOMAIN windows : windows[i].IsForeground

====
